---- MODULE Spec2Model ----
(***************************************************************************)
(* MRC/Imsubs encoder of MicronOxford/scripts: write_imsubs of             *)
(* omero/omero2mrc.py (the same routine is any2imsubs of omero/dv_utils.py *)
(* and omero/ndsafir.py).  The sink f is the sequence of bytes written so  *)
(* far; every f.write / tofile call of the routine appends to it.          *)
(*                                                                         *)
(* Numbers.  struct.pack is used in native mode on the little-endian host  *)
(* the scripts run on: integers are two's complement, little-endian, and   *)
(* "f" is IEEE-754 binary32, rounded to nearest, ties to even.  A real     *)
(* number is carried as a fraction num/den (den > 0).                      *)
(*                                                                         *)
(* Specifications.  Spec: write_imsubs of omero2mrc.py.  SpecNd:           *)
(* any2imsubs of ndsafir.py with its temporary file.  SpecPair: two        *)
(* concurrent calls of any2imsubs.  SpecSniff: is_imsubs and is_dv.        *)
(* SpecRun: run_ndsafir.  SpecArgs: get_ndsafir_args.  SpecReorder:        *)
(* reorder of imaging/reorder_dv.py.  SpecLines: get_lines_ends of         *)
(* imagej/lines_profile_.py.  SpecSep: write_imsubs of                     *)
(* omero/omero2mrc_sepCH.py.  SpecBatch: the batch run of                  *)
(* auto/ndsafir-batch.py (master thread, worker thread, dialog), and       *)
(* FairBatch, the same under fair scheduling.  Each specification holds    *)
(* the variables of the others at Unused.                                  *)
(***************************************************************************)
EXTENDS Integers, Sequences, FiniteSets, TLC

VARIABLES
    img,        \* the image handed to write_imsubs (never modified)
    f,          \* the bytes written to the file handle so far
    pc,         \* position in write_imsubs
    err,        \* the exception that ended the call, "" when none
    nEnum,      \* the number of channels img.getChannels() enumerated at
                \* line 139, -1 before that call
    w, t, z,    \* the indices of the plane loop (lines 150-152)
    tofileLog,  \* the <<theC, theT, theZ>> of every plane passed to tofile
    tmpfile,    \* any2imsubs of ndsafir.py: the state of its temporary file
    calls,      \* two concurrent calls of any2imsubs: the locals of each
    fs,         \* the directory of temporary files: name -> content
    arg,        \* the arguments of the function called (is_imsubs and
                \* is_dv, get_ndsafir_args, reorder, get_lines_ends)
    ret,        \* what the function returned or raised, <<>> before the call
    run,        \* run_ndsafir: its locals, the child process and the clock
    sep,        \* write_imsubs of omero2mrc_sepCH.py: its locals and files
    batch       \* ndsafir-batch.py: the threads, the flags, the dialog

vars == <<img, f, pc, err, nEnum, w, t, z, tofileLog, tmpfile, calls, fs,
          arg, ret, run, sep, batch>>

\* the variables of one call of write_imsubs or any2imsubs
encVars == <<img, f, pc, err, nEnum, w, t, z, tofileLog, tmpfile>>

\* the variables of the two concurrent calls, of a call of a function, and
\* of run_ndsafir
pairVars == <<calls, fs>>
funVars == <<arg, ret>>
runVars == <<run>>
sepVars == <<sep>>
batchVars == <<batch>>

\* the variables that one call of any2imsubs, write_imsubs, the two
\* concurrent calls, a function call, run_ndsafir, write_imsubs of
\* omero2mrc_sepCH.py and the batch run do not have
notNd == <<pairVars, funVars, runVars, sepVars, batchVars>>
notEnc == <<tmpfile, notNd>>
notPair == <<encVars, funVars, runVars, sepVars, batchVars>>
notFun == <<encVars, pairVars, runVars, sepVars, batchVars>>
notRun == <<encVars, pairVars, funVars, sepVars, batchVars>>
notSep == <<encVars, pairVars, funVars, runVars, batchVars>>
notBatch == <<encVars, pairVars, funVars, runVars, sepVars>>

\* the value of a variable that the specification at hand does not use
Unused == <<>>
EncUnused ==
    /\ img = Unused /\ f = Unused /\ pc = Unused /\ err = Unused
    /\ nEnum = Unused /\ w = Unused /\ t = Unused /\ z = Unused
    /\ tofileLog = Unused /\ tmpfile = Unused
PairUnused == calls = Unused /\ fs = Unused
FunUnused == arg = Unused /\ ret = Unused
RunUnused == run = Unused
SepUnused == sep = Unused
BatchUnused == batch = Unused

----------------------------------------------------------------------------
(* Bounds of the datasets explored. *)
MaxX == 2
MaxY == 2
MaxZ == 2
MaxT == 2
MaxC == 6
MaxSkew == 1
MaxPolls == 3
MaxIterations == 12
MaxAxes == 3
MaxSide == 3
MaxLength == 4

----------------------------------------------------------------------------
(* struct.pack *)

\* n little-endian bytes of the natural number v
LE(n, v) == [i \in 1..n |-> (v \div (256 ^ (i - 1))) % 256]

\* struct.pack("1i", v): signed 32 bit
Pack_i(v) ==
    IF v >= 0 THEN LE(4, v)
    ELSE LET low == (v + 2147483647) + 1    \* the low 31 bits of 2^32 + v
             b == LE(4, low)
         IN  <<b[1], b[2], b[3], b[4] + 128>>

\* struct.pack("1h", v): signed 16 bit
Pack_h(v) == IF v >= 0 THEN LE(2, v) ELSE LE(2, v + 65536)

\* struct.pack("1H")-style unsigned 16 bit, and one byte (numpy tofile)
Pack_H(v) == LE(2, v)
Pack_B(v) == <<v>>

Abs(v) == IF v < 0 THEN 0 - v ELSE v

\* the exponent e with 2^e <= num/den < 2^(e+1), for num, den > 0
RECURSIVE ExpUp(_, _, _)
ExpUp(num, den, e) == IF (2 ^ (e + 1)) * den <= num THEN ExpUp(num, den, e + 1) ELSE e
RECURSIVE ExpDown(_, _, _)
ExpDown(num, den, k) == IF num * (2 ^ k) >= den THEN 0 - k ELSE ExpDown(num, den, k + 1)
Exponent(num, den) == IF num >= den THEN ExpUp(num, den, 0) ELSE ExpDown(num, den, 1)

\* num/den (> 0) scaled to a 24 bit significand, rounded half to even
Significand(num, den, e) ==
    LET N == IF e >= 23 THEN num ELSE num * (2 ^ (23 - e))
        D == IF e >= 23 THEN den * (2 ^ (e - 23)) ELSE den
        q == N \div D
        r == N % D
    IN  IF 2 * r > D \/ (2 * r = D /\ q % 2 = 1) THEN q + 1 ELSE q

\* the binary32 bit pattern (without the sign bit) of |num/den|
F32Bits(num, den) ==
    IF num = 0 THEN 0
    ELSE LET e == Exponent(Abs(num), den)
             m == Significand(Abs(num), den, e)
         IN  (e + 127) * 8388608 + (m - 8388608)

\* struct.pack("1f", num/den)
Pack_f(num, den) ==
    LET b == LE(4, F32Bits(num, den))
    IN  IF num < 0 THEN <<b[1], b[2], b[3], b[4] + 128>> ELSE b

\* bits k .. k+7 of a * 2^s
ShiftedByte(a, s, k) ==
    IF s >= k + 8 THEN 0
    ELSE IF s >= k THEN ((a % (2 ^ (8 - (s - k)))) * (2 ^ (s - k))) % 256
    ELSE (a \div (2 ^ (k - s))) % 256

\* the 8 bytes of the IEEE-754 binary64 of a non-negative integer (exact)
Pack_d(v) ==
    IF v = 0 THEN <<0, 0, 0, 0, 0, 0, 0, 0>>
    ELSE LET e == Exponent(v, 1)
             a == v - 2 ^ e
             s == 52 - e
             x == e + 1023
         IN  [i \in 1..6 |-> ShiftedByte(a, s, 8 * (i - 1))]
             \o <<(x % 16) * 16 + (ShiftedByte(a, s, 48) % 16), x \div 16>>

\* numpy astype("float32") of a non-negative integer valued float64
Narrow(v) ==
    IF v < 16777216 THEN v
    ELSE LET e == Exponent(v, 1)
         IN  Significand(v, 1, e) * (2 ^ (e - 23))

\* n copies of byte b
Fill(n, b) == [i \in 1..n |-> b]

RECURSIVE Flatten(_)
Flatten(ss) == IF ss = <<>> THEN <<>> ELSE Head(ss) \o Flatten(Tail(ss))

----------------------------------------------------------------------------
(* The image: omero.gateway._ImageWrapper as write_imsubs reads it. *)

\* the keys of the pixel_types dictionary
PixelTypeNames ==
    {"int8", "uint8", "int16", "uint16", "int32", "uint32",
     "float", "double", "bit", "complex", "doublecomplex"}

None == <<>>

\* the pixel_types dictionary: a mode code <<n>>, or None
pixel_types ==
    [int8 |-> None, uint8 |-> <<0>>, int16 |-> <<1>>, uint16 |-> <<6>>,
     int32 |-> <<7>>, uint32 |-> None, float |-> <<2>>, double |-> None,
     bit |-> None, complex |-> <<4>>, doublecomplex |-> None]

\* "if prc is None" (line 77); "not prc" would also reject uint8's code 0
IsNoneNotPrc(prc) == prc = None \/ prc = <<0>>
IsNone(prc) == prc = None

\* the numpy dtypes getPlane can deliver for a pixel type: a "float" image
\* arrives as float32, or as float64 (openmicroscopy issue 2547, line 154)
PlaneDtypes(ptype) ==
    CASE ptype = "float" -> {"float32", "float64"}
      [] ptype = "complex" -> {"complex64"}
      [] OTHER -> {ptype}

\* bytes of one sample of a dtype (numpy itemsize)
ItemSize(dtype) ==
    CASE dtype = "uint8" -> 1
      [] dtype \in {"int16", "uint16"} -> 2
      [] dtype \in {"int32", "float32"} -> 4
      [] dtype \in {"float64", "complex64"} -> 8
      [] OTHER -> 0

\* the sample values the explored images are made of, per pixel type; a
\* complex sample is <<re, im>>
SampleTable(ptype) ==
    CASE ptype = "uint8" -> <<0, 7, 200, 255>>
      [] ptype = "int16" -> <<-2, 0, 5, 300>>
      [] ptype = "uint16" -> <<0, 9, 300, 65535>>
      [] ptype = "int32" -> <<-70000, 0, 3, 70000>>
      [] ptype = "float" -> <<16777216, 16777217, 16777218, 3>>
      [] ptype = "complex" -> << <<1, 2>>, <<1, 0>>, <<3, 5>>, <<0, 4>> >>
      [] OTHER -> <<0, 0, 0, 0>>

\* the stored value of pixel (row r, column col) of plane (c, t, z), 0-based
RawSample(im, c, tt, zz, r, col) ==
    SampleTable(im.pixelsType)[((c + tt + zz + 2 * r + col) % 4) + 1]

\* px.getPlane(theC=c, theT=tt, theZ=zz): rows of samples, in the delivered
\* dtype; a float32 delivery holds the stored values narrowed to float32
getPlane(im, c, tt, zz) ==
    [r \in 1..im.sizeY |-> [col \in 1..im.sizeX |->
        LET v == RawSample(im, c, tt, zz, r - 1, col - 1)
        IN  IF im.planeDtype = "float32" THEN Narrow(v) ELSE v]]

\* img.getPixelSizeX/Y/Z(), micrometres as a fraction
getPixelSizeX(im) == <<2, 25>>
getPixelSizeY(im) == getPixelSizeX(im)
getPixelSizeZ(im) == <<1, 8>>

\* chan.getEmissionWave() of the i-th enumerated channel: an int or None
getEmissionWave(i) == IF i % 3 = 0 THEN None ELSE <<450 + 50 * i>>

\* img.getChannels() when it enumerates n channels; n need not be getSizeC()
getChannels(n) == [i \in 1..n |-> getEmissionWave(i)]

----------------------------------------------------------------------------
(* numpy on a plane *)

Ravel(p) == Flatten(p)

\* the real part packed by struct.pack("f", ...) (a complex sample gives
\* its real part; numpy orders complex numbers by real part first)
Re(v, dtype) == IF dtype = "complex64" THEN v[1] ELSE v

PlaneMin(p, dtype) ==
    LET s == Ravel(p)
    IN  CHOOSE m \in {Re(s[i], dtype) : i \in 1..Len(s)} :
            \A i \in 1..Len(s) : m <= Re(s[i], dtype)

PlaneMax(p, dtype) ==
    LET s == Ravel(p)
    IN  CHOOSE m \in {Re(s[i], dtype) : i \in 1..Len(s)} :
            \A i \in 1..Len(s) : m >= Re(s[i], dtype)

RECURSIVE SumExact(_, _)
SumExact(s, dtype) ==
    IF s = <<>> THEN 0 ELSE Re(Head(s), dtype) + SumExact(Tail(s), dtype)

\* a float32 accumulator: every partial sum is rounded to float32
RECURSIVE Sum32(_, _, _)
Sum32(s, dtype, acc) ==
    IF s = <<>> THEN acc
    ELSE Sum32(Tail(s), dtype, Narrow(acc + Re(Head(s), dtype)))

\* lane j of numpy's unrolled float32 sum: s[j] + s[j + 8] + ... below m
RECURSIVE Lane32(_, _, _, _, _)
Lane32(s, dtype, j, m, acc) ==
    IF j > m THEN acc
    ELSE Lane32(s, dtype, j + 8, m, Narrow(acc + Re(s[j], dtype)))

\* numpy's float32 sum of n < 128 samples: one by one below 8 samples, else
\* eight lanes added pairwise and the remaining samples one by one
NumpySum32(s, dtype) ==
    IF Len(s) < 8 THEN Sum32(s, dtype, 0)
    ELSE LET m == Len(s) - (Len(s) % 8)
             r == [j \in 1..8 |-> Lane32(s, dtype, j + 8, m, Re(s[j], dtype))]
             res == Narrow(Narrow(Narrow(r[1] + r[2]) + Narrow(r[3] + r[4]))
                           + Narrow(Narrow(r[5] + r[6]) + Narrow(r[7] + r[8])))
         IN  Sum32(SubSeq(s, m + 1, Len(s)), dtype, res)

\* p.mean() as a fraction: numpy accumulates integer and float64 planes in
\* float64 (exact for the sums explored) and float32/complex64 planes in
\* float32
PlaneMean(p, dtype) ==
    LET s == Ravel(p)
    IN  IF dtype \in {"float32", "complex64"}
        THEN <<NumpySum32(s, dtype), Len(s)>>
        ELSE <<SumExact(s, dtype), Len(s)>>

\* p.astype("float32")
AsFloat32(p) == [r \in 1..Len(p) |-> [col \in 1..Len(p[r]) |-> Narrow(p[r][col])]]

\* numpy.flipud(p): the rows in reverse order
FlipUDIdentity(p) == p
FlipUD(p) == [r \in 1..Len(p) |-> p[Len(p) + 1 - r]]

\* the bytes of one sample as tofile writes them
SampleBytes(v, dtype) ==
    CASE dtype = "uint8" -> Pack_B(v)
      [] dtype = "int16" -> Pack_h(v)
      [] dtype = "uint16" -> Pack_H(v)
      [] dtype = "int32" -> Pack_i(v)
      [] dtype = "float32" -> Pack_f(v, 1)
      [] dtype = "float64" -> Pack_d(v)
      [] dtype = "complex64" -> Pack_f(v[1], 1) \o Pack_f(v[2], 1)

\* p.tofile(f): the samples in row-major order
ToFile(p, dtype) ==
    LET s == Ravel(p)
    IN  Flatten([i \in 1..Len(s) |-> SampleBytes(s[i], dtype)])

----------------------------------------------------------------------------
(* The header fields, in the order write_imsubs writes them. *)

\* number of sections (line 58)
NSectionsNoTime(im) == im.sizeZ * im.sizeC
NSections(im) == im.sizeZ * im.sizeC * im.sizeT

\* lines 57-58: width and height, number of sections
DimsBytes(im) == Pack_i(im.sizeX) \o Pack_i(im.sizeY) \o Pack_i(NSections(im))

\* lines 80-83: image mode, starting point of the sub image
ModeBytes(prc) == Pack_i(prc[1]) \o Pack_i(0) \o Pack_i(0) \o Pack_i(0)

\* n * pixel size * 10000, as a fraction
CellLen(n, size) == <<n * size[1] * 10000, size[2]>>

\* lines 86-97: sampling frequencies, cell dimensions, cell angles, axis map
GeometryBytes(im) ==
    LET xl == CellLen(im.sizeX, getPixelSizeX(im))
        yl == CellLen(im.sizeY, getPixelSizeY(im))
        zl == CellLen(im.sizeZ, getPixelSizeZ(im))
    IN  Pack_i(im.sizeX) \o Pack_i(im.sizeY) \o Pack_i(im.sizeZ)
        \o Pack_f(xl[1], xl[2]) \o Pack_f(yl[1], yl[2]) \o Pack_f(zl[1], zl[2])
        \o Pack_f(90, 1) \o Pack_f(90, 1) \o Pack_f(90, 1)
        \o Pack_i(1) \o Pack_i(2) \o Pack_i(3)

\* struct.pack("2f", p.min(), p.max())
MinMaxBytes(p, dtype) == Pack_f(PlaneMin(p, dtype), 1) \o Pack_f(PlaneMax(p, dtype), 1)

\* lines 100-102: min, max and mean of the first plane, px.getPlane()
StatsBytes(im) ==
    LET p == getPlane(im, 0, 0, 0)
        mean == PlaneMean(p, im.planeDtype)
    IN  MinMaxBytes(p, im.planeDtype) \o Pack_f(mean[1], mean[2])

\* lines 104-111: space group, extended header size, ID value, unused,
\* starting time index, blank section, extended header organization,
\* sub-resolution
IdBytesNoExtSize ==
    Pack_i(0) \o Pack_h(-16224) \o Pack_h(0) \o Pack_i(0) \o Fill(24, 32)
    \o Pack_h(0) \o Pack_h(0) \o Pack_h(1) \o Pack_h(1)
IdBytes ==
    Pack_i(0) \o Pack_i(0) \o Pack_h(-16224) \o Pack_h(0) \o Pack_i(0)
    \o Fill(24, 32) \o Pack_h(0) \o Pack_h(0) \o Pack_h(1) \o Pack_h(1)

PyMin(a, b) == IF a < b THEN a ELSE b

\* lines 115-117: min and max of channels 1 .. min(4, nchan) - 1
ChanMinMaxBytes(im) ==
    Flatten([chan \in 1..(PyMin(4, im.sizeC) - 1) |->
        MinMaxBytes(getPlane(im, chan, 0, 0), im.planeDtype)])

\* line 118: the format "%if" % ((4 - nchan) * 2); a negative count is not
\* a struct format and struct.pack raises struct.error
PadCountFourEntries(nchan) == (5 - nchan) * 2
PadCount(nchan) == (4 - nchan) * 2
PadBytes(nchan) == Fill(4 * PadCount(nchan), 0)

\* lines 120-122: image type, lens number, n1 n2 v1 v2
ImageTypeBytes == Fill(12, 0)

\* lines 125-129: min and max of a fifth channel (nchan <= 5)
FifthBytes(im) ==
    IF im.sizeC < 5 THEN Pack_f(0, 1) \o Pack_f(0, 1)
    ELSE MinMaxBytes(getPlane(im, 4, 0, 0), im.planeDtype)

\* lines 133-135: number of time points, image sequence, tilt angles
TimeBytes(im) ==
    Pack_h(im.sizeT) \o Pack_h(0) \o Pack_f(0, 1) \o Pack_f(0, 1) \o Pack_f(0, 1)

\* chan.getEmissionWave() or 0
WaveOrZero(wave) == IF wave = None THEN 0 ELSE wave[1]

\* range(0, n) has no element when n <= 0
RangeLen(n) == IF n > 0 THEN n ELSE 0

\* lines 138-144: number of wavelengths, one wavelength per enumerated
\* channel, then 5 - nchan zeros
WaveBytes(im, n) ==
    LET ch == getChannels(n)
    IN  Pack_h(im.sizeC)
        \o Flatten([i \in 1..Len(ch) |-> Pack_h(WaveOrZero(ch[i]))])
        \o Fill(2 * RangeLen(5 - im.sizeC), 0)

\* lines 146-148: origin, number of titles, space for 10 titles
TailBytes ==
    Pack_f(0, 1) \o Pack_f(0, 1) \o Pack_f(0, 1) \o Pack_i(0) \o Fill(800, 32)

\* lines 153-158: one plane, narrowed when float64, flipped, written
PlaneBytesNoNarrow(im, c, tt, zz) ==
    ToFile(FlipUD(getPlane(im, c, tt, zz)), im.planeDtype)
PlaneBytes(im, c, tt, zz) ==
    LET p == getPlane(im, c, tt, zz)
    IN  IF im.planeDtype = "float64"
        THEN ToFile(FlipUD(AsFloat32(p)), "float32")
        ELSE ToFile(FlipUD(p), im.planeDtype)

\* lines 150-152: the plane after <<c, tt, zz>> in the loop nest, or <<>>
\* when the loops are over
NextPlaneZOuter(im, c, tt, zz) ==
    IF tt + 1 < im.sizeT THEN <<c, tt + 1, zz>>
    ELSE IF zz + 1 < im.sizeZ THEN <<c, 0, zz + 1>>
    ELSE IF c + 1 < im.sizeC THEN <<c + 1, 0, 0>>
    ELSE <<>>
NextPlane(im, c, tt, zz) ==
    IF zz + 1 < im.sizeZ THEN <<c, tt, zz + 1>>
    ELSE IF tt + 1 < im.sizeT THEN <<c, tt + 1, 0>>
    ELSE IF c + 1 < im.sizeC THEN <<c + 1, 0, 0>>
    ELSE <<>>

\* lines 57-148: the whole header of an image write_imsubs accepts, when
\* getChannels() enumerates n channels
HeaderBytes(im, n) ==
    DimsBytes(im) \o ModeBytes(pixel_types[im.pixelsType]) \o GeometryBytes(im)
    \o StatsBytes(im) \o IdBytes \o ChanMinMaxBytes(im) \o PadBytes(im.sizeC)
    \o ImageTypeBytes \o FifthBytes(im) \o TimeBytes(im) \o WaveBytes(im, n)
    \o TailBytes

\* lines 150-158: the planes from <<c, tt, zz>> to the end of the loop nest
RECURSIVE PlanesFrom(_, _, _, _)
PlanesFrom(im, c, tt, zz) ==
    LET nx == NextPlane(im, c, tt, zz)
    IN  PlaneBytes(im, c, tt, zz)
        \o (IF nx = <<>> THEN <<>> ELSE PlanesFrom(im, nx[1], nx[2], nx[3]))

\* lines 57-159: everything a completed call has written
Encoded(im, n) == HeaderBytes(im, n) \o PlanesFrom(im, 0, 0, 0)

----------------------------------------------------------------------------
(* write_imsubs(img, f), one action per statement group. *)

\* the numbers of channels getChannels() may enumerate for an image of nc
\* channels: nc itself, or up to MaxSkew fewer or more
EnumCounts(nc) == {n \in (nc - MaxSkew)..(nc + MaxSkew) : n >= 0}

Images ==
    UNION { { [sizeX |-> x, sizeY |-> y, sizeZ |-> nz, sizeC |-> nc, sizeT |-> nt,
               pixelsType |-> pt, planeDtype |-> dt] :
                x \in 1..MaxX, y \in 1..MaxY, nz \in 1..MaxZ, nt \in 1..MaxT,
                dt \in PlaneDtypes(pt) } :
            pt \in PixelTypeNames, nc \in 1..MaxC }

Init ==
    /\ img \in Images
    /\ f = <<>>
    /\ pc = "dims"
    /\ err = ""
    /\ nEnum = -1
    /\ w = 0 /\ t = 0 /\ z = 0
    /\ tofileLog = <<>>
    /\ tmpfile = "none"
    /\ PairUnused /\ FunUnused /\ RunUnused /\ SepUnused /\ BatchUnused

\* the exceptions of lines 78, 118 and 131
UnsupportedTypeError == "TypeError: this image data type cannot be converted to mrc"
BadFormatError == "struct.error: bad char in struct format"
TooManyChannelsError == "TypeError: mrc file cannot have more than 5 channels"

Goto(next) == /\ pc' = next
              /\ UNCHANGED <<img, err, nEnum, w, t, z, tofileLog>>
              /\ UNCHANGED notEnc

Raise(e) == /\ pc' = "raised"
            /\ err' = e
            /\ UNCHANGED <<img, nEnum, w, t, z, tofileLog>>
            /\ UNCHANGED notEnc

\* lines 57-58
WriteDims ==
    /\ pc = "dims"
    /\ f' = f \o DimsBytes(img)
    /\ Goto("mode")

\* lines 74-78: the pixel type has no mode code
RaiseUnsupportedType ==
    /\ pc = "mode"
    /\ IsNone(pixel_types[img.pixelsType])
    /\ UNCHANGED f
    /\ Raise(UnsupportedTypeError)

\* lines 74-97
WriteModeAndGeometry ==
    /\ pc = "mode"
    /\ ~IsNone(pixel_types[img.pixelsType])
    /\ f' = f \o ModeBytes(pixel_types[img.pixelsType]) \o GeometryBytes(img)
    /\ Goto("stats")

\* lines 100-102
WriteStats ==
    /\ pc = "stats"
    /\ f' = f \o StatsBytes(img)
    /\ Goto("ids")

\* lines 104-111
WriteIds ==
    /\ pc = "ids"
    /\ f' = f \o IdBytes
    /\ Goto("minmax")

\* lines 115-117
WriteChanMinMax ==
    /\ pc = "minmax"
    /\ f' = f \o ChanMinMaxBytes(img)
    /\ Goto("pad")

\* line 118, with five channels or more: struct.error
RaiseBadFormat ==
    /\ pc = "pad"
    /\ PadCount(img.sizeC) < 0
    /\ UNCHANGED f
    /\ Raise(BadFormatError)

\* lines 118-122
WritePadAndImageType ==
    /\ pc = "pad"
    /\ PadCount(img.sizeC) >= 0
    /\ f' = f \o PadBytes(img.sizeC) \o ImageTypeBytes
    /\ Goto("fifth")

\* lines 125-135: min and max of a fifth channel, or the error for more
\* than five channels; then the time fields
WriteFifthAndTime ==
    /\ pc = "fifth"
    /\ IF img.sizeC <= 5
       THEN /\ f' = f \o FifthBytes(img) \o TimeBytes(img)
            /\ Goto("waves")
       ELSE /\ UNCHANGED f
            /\ Raise(TooManyChannelsError)

\* lines 138-148
WriteWavesAndTail ==
    /\ pc = "waves"
    /\ \E n \in EnumCounts(img.sizeC) :
        /\ nEnum' = n
        /\ f' = f \o WaveBytes(img, n) \o TailBytes
    /\ pc' = "planes"
    /\ UNCHANGED <<img, err, w, t, z, tofileLog>>
    /\ UNCHANGED notEnc

\* lines 150-158: one iteration of the innermost loop
WritePlane ==
    /\ pc = "planes"
    /\ f' = f \o PlaneBytes(img, w, t, z)
    /\ tofileLog' = Append(tofileLog, <<w, t, z>>)
    /\ LET nx == NextPlane(img, w, t, z)
       IN  IF nx = <<>>
           THEN pc' = "flush" /\ UNCHANGED <<w, t, z>>
           ELSE pc' = "planes" /\ w' = nx[1] /\ t' = nx[2] /\ z' = nx[3]
    /\ UNCHANGED <<img, err, nEnum>>
    /\ UNCHANGED notEnc

\* lines 159-160
Flush ==
    /\ pc = "flush"
    /\ UNCHANGED f
    /\ Goto("done")

Next ==
    \/ WriteDims
    \/ RaiseUnsupportedType
    \/ WriteModeAndGeometry
    \/ WriteStats
    \/ WriteIds
    \/ WriteChanMinMax
    \/ RaiseBadFormat
    \/ WritePadAndImageType
    \/ WriteFifthAndTime
    \/ WriteWavesAndTail
    \/ WritePlane
    \/ Flush

Spec == Init /\ [][Next]_vars

----------------------------------------------------------------------------
(* Reading an encoded file back. *)

\* the little-endian signed 16 bit integer at byte offset off (0-based)
S16At(s, off) ==
    LET u == s[off + 1] + 256 * s[off + 2]
    IN  IF u >= 32768 THEN u - 65536 ELSE u

\* the little-endian signed 32 bit integer at byte offset off (0-based)
S32At(s, off) ==
    LET low == s[off + 1] + 256 * s[off + 2] + 65536 * s[off + 3]
               + 16777216 * (s[off + 4] % 128)
    IN  IF s[off + 4] >= 128 THEN (low - 2147483647) - 1 ELSE low

Encodable == {"uint8", "int16", "uint16", "int32", "float", "complex"}
IntegerTypes == {"uint8", "int16", "uint16", "int32"}

\* bytes per sample of the samples in the file
BytesPerSample(ptype) ==
    CASE ptype = "uint8" -> 1
      [] ptype \in {"int16", "uint16"} -> 2
      [] ptype \in {"int32", "float"} -> 4
      [] ptype = "complex" -> 8
      [] OTHER -> 0

Ended == pc \in {"done", "raised"}

----------------------------------------------------------------------------
(* The claims. *)

\* C1: for every image of 1..5 channels with an encodable pixel type (and
\* channel metadata that enumerates exactly its channels), write_imsubs
\* completes without raising and the sink holds exactly
\* 1024 + num_z * num_channels * num_time * width * height * bytes_per_sample
\* bytes.  The code raises struct.error at line 118 for five channels.
C1_CompletesWithExactSize ==
    (/\ Ended
     /\ img.sizeC \in 1..5
     /\ img.pixelsType \in Encodable
     /\ nEnum \in {-1, img.sizeC})
    => /\ pc = "done"
       /\ Len(f) = 1024 + img.sizeZ * img.sizeC * img.sizeT * img.sizeX
                          * img.sizeY * BytesPerSample(img.pixelsType)

\* C2: when the pixel type has no mode code, the unsupported-pixel-type error
\* is raised with zero bytes written to the sink.  The code has written the
\* 12 bytes of lines 57-58 by then.
C2_UnsupportedTypeWritesNothing ==
    (pc = "raised" /\ err = UnsupportedTypeError) => Len(f) = 0

\* C3: with more than 5 channels and an encodable pixel type the encoder
\* fails with an empty sink.
C3_TooManyChannelsWritesNothing ==
    (pc = "raised" /\ img.sizeC > 5 /\ img.pixelsType \in Encodable) => Len(f) = 0

\* C4: with more than 5 channels and an encodable pixel type the error the
\* encoder fails with is the dedicated too-many-channels TypeError.
C4_TooManyChannelsError ==
    (Ended /\ img.sizeC > 5 /\ img.pixelsType \in Encodable)
    => (pc = "raised" /\ err = TooManyChannelsError)

\* C5: in the output of every successful encode the two bytes at offsets
\* 96-97, read as a little-endian signed 16 bit integer, are -16224; exactly
\* 96 bytes precede the ID field whatever the channel count and pixel type,
\* so the same holds of every sink that has reached the field.
C5_SignatureAt96 ==
    /\ pc = "done" => Len(f) >= 98
    /\ Len(f) >= 98 => S16At(f, 96) = -16224

C5_Witness ==
    /\ pc = "done" /\ img.sizeC = 4 /\ img.pixelsType = "complex"
    /\ S16At(f, 96) = -16224

\* C6: in the output of every successful encode the int32 at byte offset 8
\* (nsections) equals num_z * num_channels * num_time.
C6_NSectionsAt8 ==
    pc = "done" => S32At(f, 8) = img.sizeZ * img.sizeC * img.sizeT

C6_Witness ==
    /\ pc = "done" /\ img.sizeZ = 2 /\ img.sizeC = 3 /\ img.sizeT = 2
    /\ S32At(f, 8) = 12

\* the plane the formula of the spec puts at stream position k (0-based)
PlaneAtPosition(k) ==
    <<k \div (img.sizeT * img.sizeZ), (k \div img.sizeZ) % img.sizeT, k % img.sizeZ>>

HeaderComplete == pc \in {"planes", "flush", "done"}

\* C7: planes are appended in channel -> time -> Z order: the k-th plane
\* written after the header (0-based) is plane(k div (num_time * num_z),
\* (k div num_z) mod num_time, k mod num_z), a completed encode has written
\* each (c, t, z) exactly once, no plane is written before the header is
\* complete, every plane written lands at the end of the sink, and the
\* completed sink is the header followed by those planes' bytes in order.
C7_PlaneOrder ==
    LET n == Len(tofileLog)
        PlaneOf(k) == PlaneBytes(img, tofileLog[k][1], tofileLog[k][2], tofileLog[k][3])
    IN  /\ \A k \in 1..n : tofileLog[k] = PlaneAtPosition(k - 1)
        /\ ~HeaderComplete => n = 0
        /\ (HeaderComplete /\ n = 0) => f = HeaderBytes(img, nEnum)
        /\ (HeaderComplete /\ n > 0) =>
             LET last == PlaneOf(n)
             IN  SubSeq(f, Len(f) - Len(last) + 1, Len(f)) = last
        /\ pc = "done" =>
             /\ \A c \in 0..(img.sizeC - 1), tt \in 0..(img.sizeT - 1),
                   zz \in 0..(img.sizeZ - 1) :
                  Cardinality({k \in 1..n : tofileLog[k] = <<c, tt, zz>>}) = 1
             /\ f = HeaderBytes(img, nEnum) \o Flatten([k \in 1..n |-> PlaneOf(k)])

C7_Witness ==
    /\ pc = "done" /\ img.sizeC = 3 /\ img.sizeT = 2 /\ img.sizeZ = 2
    /\ Len(tofileLog) = 12
    /\ tofileLog[7] = <<1, 1, 0>>

\* the bytes of the file at (row r, column col), 1-based, of the plane that
\* starts at byte offset off
SampleAt(s, off, r, col, item) ==
    LET at == off + ((r - 1) * img.sizeX + (col - 1)) * item
    IN  SubSeq(s, at + 1, at + item)

\* the integer a sample's bytes hold
DecodeSample(b, dtype) ==
    CASE dtype = "uint8" -> b[1]
      [] dtype = "uint16" -> b[1] + 256 * b[2]
      [] dtype = "int16" -> S16At(b, 0)
      [] dtype = "int32" -> S32At(b, 0)

\* the plane read back from byte offset off
ReadPlane(s, off, dtype) ==
    [r \in 1..img.sizeY |-> [col \in 1..img.sizeX |->
        DecodeSample(SampleAt(s, off, r, col, ItemSize(dtype)), dtype)]]

SingleIntegerPlane ==
    /\ img.sizeC = 1 /\ img.sizeT = 1 /\ img.sizeZ = 1
    /\ img.pixelsType \in IntegerTypes
    /\ nEnum = 1

\* C8: for a single-channel (one channel declared and one enumerated),
\* single-time-point, single-Z image with integer pixels, the bytes from
\* offset 1024 of the output are the original plane with its rows reversed:
\* row r of the file is row height + 1 - r of the source, columns unchanged,
\* bit for bit; reversing the rows of the plane read back gives the original.
C8_RoundTripFlipped ==
    (pc = "done" /\ SingleIntegerPlane) =>
        LET src == getPlane(img, 0, 0, 0)
            item == ItemSize(img.planeDtype)
            back == ReadPlane(f, 1024, img.planeDtype)
        IN  /\ Len(f) = 1024 + img.sizeY * img.sizeX * item
            /\ \A r \in 1..img.sizeY, col \in 1..img.sizeX :
                 SampleAt(f, 1024, r, col, item)
                    = SampleBytes(src[img.sizeY + 1 - r][col], img.planeDtype)
            /\ [r \in 1..img.sizeY |-> back[img.sizeY + 1 - r]] = src

C8_Witness ==
    /\ pc = "done" /\ SingleIntegerPlane
    /\ img.sizeX = 2 /\ img.sizeY = 2 /\ img.pixelsType = "int16"
    /\ ReadPlane(f, 1024, "int16") = << <<5, 300>>, <<-2, 0>> >>

\* the same image with its planes already narrowed to 32 bit floats
PreNarrowed == [img EXCEPT !.planeDtype = "float32"]

\* C9 as stated: encoding an image whose planes are delivered as 64 bit
\* floats gives exactly the output (header and plane bytes) of encoding the
\* same image with the planes already narrowed to 32 bit floats.
C9_NarrowingTransparent ==
    (pc = "done" /\ img.planeDtype = "float64") => f = Encoded(PreNarrowed, nEnum)

\* C9 as amended: the two outputs have the same length and the same bytes
\* everywhere except in the amean field (bytes 84-87), which holds the
\* float32 rounding of the mean of the plane as delivered (64 bit); in
\* particular all plane bytes are the same.
C9_NarrowingTransparentExceptMean ==
    (pc = "done" /\ img.planeDtype = "float64") =>
        LET g == Encoded(PreNarrowed, nEnum)
            p == Ravel(getPlane(img, 0, 0, 0))
        IN  /\ Len(f) = Len(g)
            /\ \A i \in 1..Len(f) : i \notin 85..88 => f[i] = g[i]
            /\ SubSeq(f, 85, 88) = Pack_f(SumExact(p, "float64"), Len(p))

C9_Witness ==
    /\ pc = "done" /\ img.planeDtype = "float64"
    /\ img.sizeX = 2 /\ img.sizeY = 2 /\ img.sizeC = 2
    /\ SubSeq(f, 85, 88) # SubSeq(Encoded(PreNarrowed, nEnum), 85, 88)
    /\ getPlane(img, 0, 0, 0) # getPlane(PreNarrowed, 0, 0, 0)

\* the table of the format: pixel type -> mode code
ModeTable ==
    [uint8 |-> 0, int16 |-> 1, float |-> 2, complex |-> 4, uint16 |-> 6, int32 |-> 7]

\* C10: the mode field at offset 12 is the pixel type's code in the table
\* uint8 -> 0, int16 -> 1, float -> 2, complex -> 4, uint16 -> 6, int32 -> 7;
\* every other pixel type of the enumeration makes the encode fail with the
\* unsupported-type error, and uint8 (code 0) is accepted.
C10_ModeTable ==
    /\ Len(f) >= 16 =>
         /\ img.pixelsType \in DOMAIN ModeTable
         /\ S32At(f, 12) = ModeTable[img.pixelsType]
    /\ img.pixelsType \in DOMAIN ModeTable =>
         /\ err # UnsupportedTypeError
         /\ pc \notin {"dims", "mode"} => Len(f) >= 16
    /\ img.pixelsType \notin DOMAIN ModeTable =>
         /\ pc # "done"
         /\ pc \notin {"dims", "mode"} => (pc = "raised" /\ err = UnsupportedTypeError)

C10_Witness ==
    /\ pc = "done" /\ img.pixelsType = "uint8"
    /\ S32At(f, 12) = 0

----------------------------------------------------------------------------
(* The block of per-channel minima and maxima (lines 113-118). *)

\* the (min, max) pairs of channels 1 .. last, zero-padded to entries pairs
MinMaxBlock(im, last, entries) ==
    Flatten([chan \in 1..last |->
        MinMaxBytes(getPlane(im, chan, 0, 0), im.planeDtype)])
    \o Fill(8 * (entries - last), 0)

\* the sink ends right after the block and the six int16 that follow it
AfterImageType == pc = "fifth"

\* C11: the block at offset 136 holds the (min, max) pairs of channels
\* 1 .. min(4, N - 1), zero-padded to 4 entries (32 bytes), for every
\* channel count N; the six int16 after it therefore end at byte 180.
\* The code pads with (4 - N) * 2 floats after N - 1 pairs: 3 entries.
C11_FourEntryBlock ==
    AfterImageType =>
        /\ Len(f) = 136 + 32 + 12
        /\ SubSeq(f, 137, 168)
             = MinMaxBlock(img, PyMin(4, img.sizeC - 1), 4)

\* C11 (amended): the block at offset 136 holds the (min, max) pairs of
\* channels 1 .. min(3, N - 1), zero-padded to 3 entries (24 bytes, offsets
\* 136..159) for every channel count that gets past line 118, so the six
\* int16 after it end at byte 172, and in a finished file the number of
\* time points sits at offset 180 and the number of wavelengths at 196.
C11_ThreeEntryBlock ==
    /\ AfterImageType =>
        /\ Len(f) = 136 + 24 + 12
        /\ SubSeq(f, 137, 160)
             = MinMaxBlock(img, PyMin(3, img.sizeC - 1), 3)
    /\ pc = "done" =>
        /\ S16At(f, 180) = img.sizeT
        /\ S16At(f, 196) = img.sizeC

\* three channels: two pairs that are not all zero, then one entry of padding
C11_Witness ==
    /\ AfterImageType
    /\ img.sizeC = 3
    /\ SubSeq(f, 137, 144) # Fill(8, 0)
    /\ SubSeq(f, 145, 152) # Fill(8, 0)
    /\ SubSeq(f, 153, 160) = Fill(8, 0)

----------------------------------------------------------------------------
(* The wavelength field (lines 137-144). *)

\* the header has just been written and no plane yet
HeaderJustWritten == pc = "planes" /\ tofileLog = <<>>

\* the wavelength of the i-th enumerated channel (i from 1), 0 when it is
\* unset or there is no such channel
SlotValue(n, i) == IF i <= n THEN WaveOrZero(getEmissionWave(i)) ELSE 0

\* C12: the wavelength field always occupies exactly 5 int16 slots (offsets
\* 198..207): slot i holds the emission wavelength of the i-th enumerated
\* channel, or 0 when that is unset or missing, also when getChannels()
\* enumerates another number of channels than getSizeC(); the header is
\* 1024 bytes.  write_imsubs writes one slot per enumerated channel and
\* then 5 - nchan zeros.
C12_FiveWaveSlots ==
    HeaderJustWritten =>
        /\ Len(f) = 1024
        /\ \A i \in 1..5 : S16At(f, 196 + 2 * i) = SlotValue(nEnum, i)

----------------------------------------------------------------------------
(* any2imsubs(img) of ndsafir.py (lines 206-358).  Its header statements up
   to the number of time points are those of write_imsubs and write the
   same bytes; it writes to a temporary file of its own, patches the
   wavelength field when getChannels() and getSizeC() disagree, and removes
   the file when an exception is caught.  img, f, pc, err, nEnum, w, t, z
   and tofileLog hold its state as they hold the state of write_imsubs. *)

\* struct.calcsize("%ih" % n)
CalcSizeH(n) == 2 * n

\* f.write(b) at file position pos (0-based) of a file holding s
WriteAt(s, pos, b) ==
    LET end == IF pos + Len(b) > Len(s) THEN pos + Len(b) ELSE Len(s)
    IN  [i \in 1..end |-> IF i > pos /\ i <= pos + Len(b) THEN b[i - pos] ELSE s[i]]

\* lines 318-337 without the seeks of lines 328-335
NdWavesNoPatch(s, im, n) ==
    s \o Pack_h(im.sizeC)
      \o Flatten([i \in 1..n |-> Pack_h(WaveOrZero(getChannels(n)[i]))])
      \o Fill(2 * RangeLen(5 - n), 0)

\* lines 318-337: the file after the number of wavelengths, one wavelength
\* per enumerated channel, the patch of the count when rchan # nchan, and
\* 5 - rchan zeros
NdWaves(s, im, rchan) ==
    LET ch      == getChannels(rchan)
        written == s \o Pack_h(im.sizeC)
                     \o Flatten([i \in 1..Len(ch) |-> Pack_h(WaveOrZero(ch[i]))])
        end     == Len(written)
        back    == end - CalcSizeH(rchan + 1)
        patched == IF rchan # im.sizeC
                   THEN WriteAt(written, back, Pack_h(rchan))
                   ELSE written
        pos     == IF rchan # im.sizeC
                   THEN back + CalcSizeH(1) + CalcSizeH(rchan)
                   ELSE end
    IN  WriteAt(patched, pos, Fill(CalcSizeH(RangeLen(5 - rchan)), 0))

\* the datasets any2imsubs is run on: planes of one sample
NdImages == {im \in Images : im.sizeX = 1 /\ im.sizeY = 1}

NdInit ==
    /\ img \in NdImages
    /\ f = <<>>
    /\ pc = "nd_create"
    /\ err = ""
    /\ nEnum = -1
    /\ w = 0 /\ t = 0 /\ z = 0
    /\ tofileLog = <<>>
    /\ tmpfile = "none"
    /\ PairUnused /\ FunUnused /\ RunUnused /\ SepUnused /\ BatchUnused

\* what a statement that only writes to the file leaves alone
ndKept == <<img, err, nEnum, w, t, z, tofileLog, tmpfile, notNd>>

\* an exception inside the try block: control goes to line 353
NdCatch(e) == /\ pc' = "nd_except"
              /\ err' = e
              /\ UNCHANGED <<img, f, nEnum, w, t, z, tofileLog, tmpfile, notNd>>

\* line 237: a new, empty file is created and opened
NdCreateTemp ==
    /\ pc = "nd_create"
    /\ tmpfile' = "open"
    /\ pc' = "nd_dims"
    /\ UNCHANGED <<img, f, err, nEnum, w, t, z, tofileLog, notNd>>

\* lines 239-240
NdWriteDims ==
    /\ pc = "nd_dims"
    /\ f' = f \o DimsBytes(img)
    /\ pc' = "nd_mode"
    /\ UNCHANGED ndKept

\* lines 256-260
NdRaiseUnsupportedType ==
    /\ pc = "nd_mode"
    /\ IsNone(pixel_types[img.pixelsType])
    /\ NdCatch("TypeError: this image type cannot be converted to mrc")

\* lines 256-298
NdWriteModeToMinMax ==
    /\ pc = "nd_mode"
    /\ ~IsNone(pixel_types[img.pixelsType])
    /\ f' = f \o ModeBytes(pixel_types[img.pixelsType]) \o GeometryBytes(img)
              \o StatsBytes(img) \o IdBytes \o ChanMinMaxBytes(img)
    /\ pc' = "nd_pad"
    /\ UNCHANGED ndKept

\* line 299, with five channels or more: struct.error
NdRaiseBadFormat ==
    /\ pc = "nd_pad"
    /\ PadCount(img.sizeC) < 0
    /\ NdCatch(BadFormatError)

\* lines 299-315
NdWritePadToTime ==
    /\ pc = "nd_pad"
    /\ PadCount(img.sizeC) >= 0
    /\ IF img.sizeC <= 5
       THEN /\ f' = f \o PadBytes(img.sizeC) \o ImageTypeBytes
                      \o FifthBytes(img) \o TimeBytes(img)
            /\ pc' = "nd_waves"
            /\ UNCHANGED ndKept
       ELSE NdCatch(TooManyChannelsError)

\* lines 318-341
NdWriteWavesAndTail ==
    /\ pc = "nd_waves"
    /\ \E n \in EnumCounts(img.sizeC) :
        /\ nEnum' = n
        /\ f' = NdWaves(f, img, n) \o TailBytes
    /\ pc' = "nd_planes"
    /\ UNCHANGED <<img, err, w, t, z, tofileLog, tmpfile, notNd>>

\* lines 343-351: one iteration of the innermost loop
NdWritePlane ==
    /\ pc = "nd_planes"
    /\ f' = f \o PlaneBytes(img, w, t, z)
    /\ tofileLog' = Append(tofileLog, <<w, t, z>>)
    /\ LET nx == NextPlane(img, w, t, z)
       IN  IF nx = <<>>
           THEN pc' = "nd_exit" /\ UNCHANGED <<w, t, z>>
           ELSE pc' = "nd_planes" /\ w' = nx[1] /\ t' = nx[2] /\ z' = nx[3]
    /\ UNCHANGED <<img, err, nEnum, tmpfile, notNd>>

\* any statement of the try block that reads a plane or writes to the file
\* raises an I/O error
NdIOError ==
    /\ pc \in {"nd_dims", "nd_mode", "nd_pad", "nd_waves", "nd_planes"}
    /\ NdCatch("IOError: plane read or write")

\* lines 354-356: close, unlink, re-raise the exception caught
NdCloseUnlinkRaise ==
    /\ pc = "nd_except"
    /\ tmpfile' = "unlinked"
    /\ pc' = "raised"
    /\ UNCHANGED <<img, f, err, nEnum, w, t, z, tofileLog, notNd>>

\* line 354: f.close() flushes what is buffered; when that write fails,
\* close() raises and line 355 is not reached: the file stays
NdCloseInHandlerFails ==
    /\ pc = "nd_except"
    /\ tmpfile' = "closed"
    /\ err' = "IOError: close"
    /\ pc' = "raised"
    /\ UNCHANGED <<img, f, nEnum, w, t, z, tofileLog, notNd>>

\* the end of the with block (after line 351, outside the try) closes the
\* file, line 358 returns its name
NdCloseAndReturn ==
    /\ pc = "nd_exit"
    /\ tmpfile' = "closed"
    /\ pc' = "returned"
    /\ UNCHANGED <<img, f, err, nEnum, w, t, z, tofileLog, notNd>>

\* the close at the end of the with block fails to flush: the exception is
\* raised outside the try block, nothing removes the file
NdCloseAtExitFails ==
    /\ pc = "nd_exit"
    /\ tmpfile' = "closed"
    /\ err' = "IOError: close"
    /\ pc' = "raised"
    /\ UNCHANGED <<img, f, nEnum, w, t, z, tofileLog, notNd>>

NdNext ==
    \/ NdCreateTemp
    \/ NdWriteDims
    \/ NdRaiseUnsupportedType
    \/ NdWriteModeToMinMax
    \/ NdRaiseBadFormat
    \/ NdWritePadToTime
    \/ NdWriteWavesAndTail
    \/ NdWritePlane
    \/ NdIOError
    \/ NdCloseUnlinkRaise
    \/ NdCloseInHandlerFails
    \/ NdCloseAndReturn
    \/ NdCloseAtExitFails

SpecNd == NdInit /\ [][NdNext]_vars

\* the file any2imsubs writes when nothing fails
NdEncoded(im, n) ==
    NdWaves(DimsBytes(im) \o ModeBytes(pixel_types[im.pixelsType])
            \o GeometryBytes(im) \o StatsBytes(im) \o IdBytes
            \o ChanMinMaxBytes(im) \o PadBytes(im.sizeC) \o ImageTypeBytes
            \o FifthBytes(im) \o TimeBytes(im), im, n)
    \o TailBytes \o PlanesFrom(im, 0, 0, 0)

\* C13: in every file any2imsubs returns, the numwaves field (int16 at
\* offset 196) equals getSizeC(), the value used for nsections and for the
\* plane loop, also when getChannels() enumerates another number of
\* channels.  Lines 328-335 overwrite the field with the enumerated count.
C13_NumwavesIsSizeC ==
    pc = "returned" =>
        /\ S16At(f, 196) = img.sizeC
        /\ S32At(f, 8) = img.sizeZ * img.sizeC * img.sizeT
        /\ Len(tofileLog) = img.sizeZ * img.sizeC * img.sizeT

\* C13 (amended): in every file any2imsubs returns, numwaves equals the
\* number of channels getChannels() enumerated; nsections and the number of
\* planes written are computed from getSizeC(), whatever was enumerated.
C13_NumwavesIsEnumerated ==
    pc = "returned" =>
        /\ S16At(f, 196) = nEnum
        /\ S32At(f, 8) = img.sizeZ * img.sizeC * img.sizeT
        /\ Len(tofileLog) = img.sizeZ * img.sizeC * img.sizeT

\* a file returned for three channels of which two were enumerated
C13_Witness ==
    /\ pc = "returned"
    /\ img.sizeC = 3
    /\ nEnum = 2
    /\ S16At(f, 196) = 2
    /\ Len(f) = 1024 + Len(tofileLog) * BytesPerSample(img.pixelsType)

\* C14: any2imsubs never leaves a partial file: whenever it raises, its
\* temporary file has been closed and removed and the exception raised in
\* the try block is the one that propagates; whenever it returns, the file
\* exists, closed, and holds the complete header and all planes.  A close()
\* that fails to flush raises past line 355 or outside the try block.
C14_NoPartialFile ==
    /\ pc = "raised" =>
        /\ tmpfile = "unlinked"
        /\ err # "IOError: close"
    /\ pc = "returned" =>
        /\ tmpfile = "closed"
        /\ err = ""
        /\ f = NdEncoded(img, nEnum)

----------------------------------------------------------------------------
(* Two calls of any2imsubs (ndsafir.py lines 232-358) on different
   datasets, their statements interleaved.  Every name of any2imsubs is a
   local of the call; the calls meet only in the directory where
   NamedTemporaryFile creates their files.  Here getChannels() enumerates
   the declared channels and no I/O fails. *)

Calls == {1, 2}

\* the names NamedTemporaryFile may draw
TempNames == {"tmpA.mrc", "tmpB.mrc"}

\* fs[name] of a name that is no file (no byte is negative)
Absent == <<-1>>

\* os.open without O_EXCL: any name, an existing file is truncated
AnyName(fsys) == TempNames

\* line 237: mkstemp opens with O_CREAT | O_EXCL and draws another name
\* until the name is new
NewNames(fsys) == {n \in TempNames : fsys[n] = Absent}

\* the datasets of the two calls: one time point, one or five channels, a
\* pixel type with a mode code or without
PairImages ==
    {im \in NdImages : /\ im.sizeT = 1
                       /\ im.sizeC \in {1, 5}
                       /\ im.pixelsType \in {"uint8", "int16", "int8"}}

PairInit ==
    /\ \E a \in PairImages : \E b \in PairImages \ {a} :
         calls = [i \in Calls |->
                    [img |-> IF i = 1 THEN a ELSE b, pc |-> "create",
                     name |-> "", pos |-> 0, w |-> 0, t |-> 0, z |-> 0,
                     err |-> ""]]
    /\ fs = [n \in TempNames |-> Absent]
    /\ EncUnused /\ FunUnused /\ RunUnused /\ SepUnused /\ BatchUnused

\* f.write(b) of call i: at the position of its own file object
PairWrite(i, b, next) ==
    /\ fs' = [fs EXCEPT ![calls[i].name] =
                WriteAt(IF @ = Absent THEN <<>> ELSE @, calls[i].pos, b)]
    /\ calls' = [calls EXCEPT ![i].pos = @ + Len(b), ![i].pc = next]
    /\ UNCHANGED notPair

\* an exception inside the try block of call i
PairCatch(i, e) ==
    /\ calls' = [calls EXCEPT ![i].err = e, ![i].pc = "except"]
    /\ UNCHANGED <<fs, notPair>>

\* line 237
PairCreateTemp(i) ==
    /\ calls[i].pc = "create"
    /\ \E n \in NewNames(fs) :
        /\ fs' = [fs EXCEPT ![n] = <<>>]
        /\ calls' = [calls EXCEPT ![i].name = n, ![i].pc = "dims"]
    /\ UNCHANGED notPair

\* lines 239-240
PairWriteDims(i) ==
    /\ calls[i].pc = "dims"
    /\ PairWrite(i, DimsBytes(calls[i].img), "mode")

\* lines 256-260
PairRaiseUnsupportedType(i) ==
    /\ calls[i].pc = "mode"
    /\ IsNone(pixel_types[calls[i].img.pixelsType])
    /\ PairCatch(i, "TypeError: this image type cannot be converted to mrc")

\* lines 256-298
PairWriteModeToMinMax(i) ==
    /\ calls[i].pc = "mode"
    /\ ~IsNone(pixel_types[calls[i].img.pixelsType])
    /\ LET im == calls[i].img
       IN  PairWrite(i, ModeBytes(pixel_types[im.pixelsType])
                        \o GeometryBytes(im) \o StatsBytes(im) \o IdBytes
                        \o ChanMinMaxBytes(im), "pad")

\* line 299, with five channels or more: struct.error
PairRaiseBadFormat(i) ==
    /\ calls[i].pc = "pad"
    /\ PadCount(calls[i].img.sizeC) < 0
    /\ PairCatch(i, BadFormatError)

\* lines 299-341
PairWritePadToTail(i) ==
    /\ calls[i].pc = "pad"
    /\ PadCount(calls[i].img.sizeC) >= 0
    /\ LET im == calls[i].img
           head == PadBytes(im.sizeC) \o ImageTypeBytes \o FifthBytes(im)
                   \o TimeBytes(im)
       IN  PairWrite(i, NdWaves(head, im, im.sizeC) \o TailBytes, "planes")

\* lines 343-351: one iteration of the innermost loop of call i
PairWritePlane(i) ==
    /\ calls[i].pc = "planes"
    /\ LET c  == calls[i]
           b  == PlaneBytes(c.img, c.w, c.t, c.z)
           nx == NextPlane(c.img, c.w, c.t, c.z)
       IN  /\ fs' = [fs EXCEPT ![c.name] =
                       WriteAt(IF @ = Absent THEN <<>> ELSE @, c.pos, b)]
           /\ calls' = [calls EXCEPT ![i] =
                 IF nx = <<>>
                 THEN [c EXCEPT !.pos = @ + Len(b), !.pc = "exit"]
                 ELSE [c EXCEPT !.pos = @ + Len(b),
                                !.w = nx[1], !.t = nx[2], !.z = nx[3]]]
    /\ UNCHANGED notPair

\* lines 353-356: close, unlink f.name, re-raise
PairCloseUnlinkRaise(i) ==
    /\ calls[i].pc = "except"
    /\ fs' = [fs EXCEPT ![calls[i].name] = Absent]
    /\ calls' = [calls EXCEPT ![i].pc = "raised"]
    /\ UNCHANGED notPair

\* the end of the with block and line 358
PairCloseAndReturn(i) ==
    /\ calls[i].pc = "exit"
    /\ calls' = [calls EXCEPT ![i].pc = "returned"]
    /\ UNCHANGED <<fs, notPair>>

PairNext ==
    \E i \in Calls :
        \/ PairCreateTemp(i)
        \/ PairWriteDims(i)
        \/ PairRaiseUnsupportedType(i)
        \/ PairWriteModeToMinMax(i)
        \/ PairRaiseBadFormat(i)
        \/ PairWritePadToTail(i)
        \/ PairWritePlane(i)
        \/ PairCloseUnlinkRaise(i)
        \/ PairCloseAndReturn(i)

SpecPair == PairInit /\ [][PairNext]_vars

\* call i has created its file and not removed it
HoldsFile(i) == calls[i].pc \notin {"create", "raised"}

\* C15: under every interleaving of two calls on different datasets, the
\* two calls never hold the same file, the file of a call holds exactly the
\* bytes this call has written so far, and the file of a call that
\* returned holds the bytes the call writes when it runs alone.
C15_NoInterference ==
    \A i \in Calls :
        /\ \A j \in Calls \ {i} :
             HoldsFile(i) /\ HoldsFile(j) => calls[i].name # calls[j].name
        /\ HoldsFile(i) =>
             /\ fs[calls[i].name] # Absent
             /\ Len(fs[calls[i].name]) = calls[i].pos
        /\ calls[i].pc = "returned" =>
             fs[calls[i].name] = NdEncoded(calls[i].img, calls[i].img.sizeC)

\* both calls are in the middle of their plane loops, each with planes
\* already written and planes still to write
C15_Witness ==
    \A i \in Calls :
        /\ calls[i].pc = "planes"
        /\ calls[i].pos > 1024
        /\ calls[i].img # calls[3 - i].img

----------------------------------------------------------------------------
(* is_dv(img) and is_imsubs(img) of ndsafir.py (lines 147-184), called on
   an original file; dv_utils.py (lines 107-127) makes the same two
   comparisons on the header it has read. *)

\* img.getFileInChunks(buf=n).next(): the first n bytes of the file, or
\* the whole file when it is shorter
FirstChunk(file, n) == SubSeq(file, 1, PyMin(n, Len(file)))

\* struct.unpack("H", b)[0]: an unsigned short in native (little-endian)
\* byte order, 0..65535
Unpack_H(b) == b[1] + 256 * b[2]

\* lines 158-164
is_dv(file) ==
    LET s == FirstChunk(file, 98)
    IN  IF Len(s) >= 98
        THEN LET m == Unpack_H(SubSeq(s, 97, 98))
             IN  m = 49312 \/ m = 41152
        ELSE FALSE

\* lines 177-184
is_imsubs(file) ==
    LET s == FirstChunk(file, 98)
    IN  IF Len(s) >= 98
        THEN LET m == Unpack_H(SubSeq(s, 97, 98))
             IN  m = -16224
        ELSE FALSE

\* the files any2imsubs returns for datasets of one plane per channel
WrittenFiles ==
    {NdEncoded(im, im.sizeC) :
        im \in {i \in NdImages : /\ i.sizeZ = 1 /\ i.sizeT = 1
                                 /\ i.sizeC <= 4
                                 /\ ~IsNone(pixel_types[i.pixelsType])}}

\* a file any2imsubs has written, or another file: 97 bytes, 98 bytes or
\* 100 bytes, with the bytes of the DV and IMSUBS signatures or zero at
\* offsets 96 and 97
SniffInit ==
    /\ LET sig == {0, 160, 192}
       IN  arg \in WrittenFiles
                   \cup {Fill(96, 0) \o <<a>> : a \in sig}
                   \cup {Fill(96, 0) \o <<a, b>> \o Fill(k, 0) :
                            a \in sig, b \in sig, k \in {0, 2}}
    /\ ret = <<>>
    /\ EncUnused /\ PairUnused /\ RunUnused /\ SepUnused /\ BatchUnused

CallIsImsubs ==
    /\ "is_imsubs" \notin DOMAIN ret
    /\ ret' = ret @@ ("is_imsubs" :> is_imsubs(arg))
    /\ UNCHANGED <<arg, notFun>>

CallIsDv ==
    /\ "is_dv" \notin DOMAIN ret
    /\ ret' = ret @@ ("is_dv" :> is_dv(arg))
    /\ UNCHANGED <<arg, notFun>>

SniffNext == CallIsImsubs \/ CallIsDv

SpecSniff == SniffInit /\ [][SniffNext]_vars

\* C16: is_imsubs returns True for every file of at least 98 bytes whose
\* 16 bit field at offset 96 holds -16224, in particular for every file
\* any2imsubs has written, and is_dv returns False for such a file.
\* is_imsubs compares an unsigned short with -16224 and the DV signature
\* 49312 is the same 16 bits.
C16_SignatureRecognised ==
    /\ ("is_imsubs" \in DOMAIN ret /\ Len(arg) >= 98) =>
          (S16At(arg, 96) = -16224 => ret["is_imsubs"])
    /\ (DOMAIN ret = {"is_imsubs", "is_dv"} /\ arg \in WrittenFiles) =>
          (ret["is_imsubs"] /\ ~ret["is_dv"])

----------------------------------------------------------------------------
(* run_ndsafir(fin, args, conn, timeout, time_grain) of ndsafir.py (lines
   564-637).  The child process and the clock behind timeout() move on
   their own; timeout() is of the kind the docstring gives,
   time.time() > X, which stays true once it is true.  The polling loop is
   followed for MaxPolls iterations. *)

RunInit ==
    /\ \E path \in {"", "/usr/local/priism/bin/ndsafir_priism"} :
         run = [pc |-> "start", NDSAFIR |-> path, child |-> "none",
                timedOut |-> FALSE, childAtTimeout |-> "",
                polls |-> 0, events |-> <<>>, err |-> ""]
    /\ EncUnused /\ PairUnused /\ FunUnused /\ SepUnused /\ BatchUnused

\* lines 598-619: the check of the path, the two temporary files, the
\* first line of the log, Popen
RunStart ==
    /\ run.pc = "start"
    /\ run' = IF run.NDSAFIR = ""
              THEN [run EXCEPT !.pc = "raised",
                               !.err = "Exception: Unable to find ndsafir_priism"]
              ELSE [run EXCEPT !.pc = "loop", !.child = "running"]
    /\ UNCHANGED notRun

\* line 622: not timeout() and running()
RunLoopTest ==
    /\ run.pc = "loop"
    /\ run' = IF ~run.timedOut /\ run.child = "running"
              THEN [run EXCEPT !.pc = "body"]
              ELSE [run EXCEPT !.pc = "after"]
    /\ UNCHANGED notRun

\* lines 623-624
RunKeepAliveAndSleep ==
    /\ run.pc = "body"
    /\ run.polls < MaxPolls
    /\ run' = [run EXCEPT !.pc = "loop", !.polls = @ + 1,
                          !.events = @ \o <<"keepAlive", "sleep">>]
    /\ UNCHANGED notRun

\* lines 626-630, and line 637 when nothing is raised; p.terminate() is
\* os.kill, which raises OSError for a process that was already reaped
RunAfterLoop ==
    /\ run.pc = "after"
    /\ run' =
        IF run.child # "running" /\ run.child # "exit0"
        THEN [run EXCEPT !.pc = "except",
                         !.err = "Exception: trouble running ND-safir"]
        ELSE IF run.timedOut
        THEN IF run.child = "running"
             THEN [run EXCEPT !.pc = "except",
                              !.err = "Exception: NDsafir exceedeed time allowed",
                              !.child = "terminated",
                              !.events = Append(@, "terminate")]
             ELSE [run EXCEPT !.pc = "except",
                              !.err = "OSError: [Errno 3] No such process",
                              !.events = Append(@, "terminate")]
        ELSE [run EXCEPT !.pc = "returned"]
    /\ UNCHANGED notRun

\* lines 632-635: both temporary files are removed, the exception goes on
RunUnlinkAndRaise ==
    /\ run.pc = "except"
    /\ run' = [run EXCEPT !.pc = "raised",
                          !.events = @ \o <<"unlink fout", "unlink flog">>]
    /\ UNCHANGED notRun

\* the child process exits, with status 0 or 1
ChildExits ==
    /\ run.pc \in {"loop", "body", "after"}
    /\ run.child = "running"
    /\ \E status \in {"exit0", "exit1"} : run' = [run EXCEPT !.child = status]
    /\ UNCHANGED notRun

\* the clock passes the time allowed: timeout() is true from now on
TimeoutExpires ==
    /\ run.pc \in {"loop", "body", "after"}
    /\ ~run.timedOut
    /\ run' = [run EXCEPT !.timedOut = TRUE, !.childAtTimeout = run.child]
    /\ UNCHANGED notRun

RunNext ==
    \/ RunStart
    \/ RunLoopTest
    \/ RunKeepAliveAndSleep
    \/ RunAfterLoop
    \/ RunUnlinkAndRaise
    \/ ChildExits
    \/ TimeoutExpires

SpecRun == RunInit /\ [][RunNext]_vars

\* the three cases in which run_ndsafir is said to raise
PathUnset == run.NDSAFIR = ""
ChildFailed == run.child = "exit1"
TimedOutWhileRunning == run.timedOut /\ run.childAtTimeout = "running"

\* C17: run_ndsafir raises in each of these cases and only in these: the
\* NDSAFIR path is unset, the child exits with a non-zero status, or
\* timeout() becomes true while the child is still running; in the timeout
\* case "terminate" is sent before the exception is raised; every sleep of
\* the polling loop comes right after a keepAlive.  The code also raises
\* when timeout() is true after the child has exited with status 0.
C17_RaisesExactlyWhen ==
    /\ run.pc = "raised" =>
         (PathUnset \/ ChildFailed \/ TimedOutWhileRunning)
    /\ run.pc = "returned" =>
         ~(PathUnset \/ ChildFailed \/ TimedOutWhileRunning)
    /\ (run.pc = "raised" /\ run.timedOut /\ run.child # "exit1") =>
         \E k \in 1..Len(run.events) : run.events[k] = "terminate"
    /\ \A k \in 1..Len(run.events) :
         run.events[k] = "sleep" => (k > 1 /\ run.events[k - 1] = "keepAlive")

----------------------------------------------------------------------------
(* get_ndsafir_args(params) of ndsafir.py (lines 639-732); nd-safir.py has
   the same statements (lines 551-626). *)

\* "%f" % v of an integer v; "%i" % v is ToString(v)
Fmt_f(v) == ToString(v) \o ".000000"

\* what the body of the for loop does for one key: raise, or the option
\* to append ("" for none)
Option(o) == [raises |-> FALSE, opt |-> o]
Raises == [raises |-> TRUE, opt |-> ""]

\* lines 663-700
KeyOption(key, params) ==
    LET val == params[key]
    IN  CASE key = "iterations" ->
                IF val < 1 THEN Raises
                ELSE IF params["time"] /\ val > 5 THEN Raises
                ELSE IF ~params["time"] /\ val > 11 THEN Raises
                ELSE Option("-iter=" \o ToString(val))
          [] key = "patch_radius" ->
                IF val < 1 THEN Raises ELSE Option("-p=" \o ToString(val))
          [] key = "noise_model" ->
                IF val = "gaussian + poisson" THEN Option("-noise=poisson")
                ELSE IF val # "gaussian" /\ val # "auto" THEN Raises
                ELSE Option("-noise=" \o val)
          [] key = "adaptability" ->
                IF val < 0 \/ val > 10 THEN Raises
                ELSE Option("-adapt=" \o Fmt_f(val))
          [] key = "island_threshold" ->
                IF val < 0 THEN Raises ELSE Option("-island=" \o Fmt_f(val))
          [] OTHER -> Option("")

\* lines 707-713
SamplingOption(params) ==
    IF "sampling" \notin DOMAIN params
    THEN Option("-sampling=" \o ToString(params["patch_radius"] + 1))
    ELSE IF params["sampling"] < 0 THEN Raises
    ELSE Option("-sampling=" \o ToString(params["sampling"]))

\* lines 719-730
DimsOption(params) ==
    LET has(key) == key \in DOMAIN params /\ params[key] = TRUE
        dims == (IF has("z-slices") THEN "z" ELSE "")
                \o (IF has("time") THEN "t" ELSE "")
                \o (IF has("wavelength") THEN "w" ELSE "")
        ndims == 2 + (IF has("z-slices") THEN 1 ELSE 0)
                   + (IF has("time") THEN 1 ELSE 0)
                   + (IF has("wavelength") THEN 1 ELSE 0)
    IN  IF ndims = 2 THEN "-2d"
        ELSE IF ndims > 2 /\ ndims < 5 THEN "-" \o ToString(ndims) \o "d=" \o dims
        ELSE "-5d"

\* the order in which params.iteritems() is taken to yield the keys
KeyOrder ==
    <<"iterations", "time", "patch_radius", "noise_model", "adaptability",
      "island_threshold", "sampling", "z-slices", "wavelength">>

\* lines 657-732: the list returned, or the ValueError of line 716
get_ndsafir_args(params) ==
    LET keys == SelectSeq(KeyOrder, LAMBDA k : k \in DOMAIN params)
        each == [k \in 1..Len(keys) |-> KeyOption(keys[k], params)]
        samp == SamplingOption(params)
    IN  IF (\E k \in 1..Len(keys) : each[k].raises) \/ samp.raises
        THEN [raised |-> "ValueError", opts |-> <<>>]
        ELSE [raised |-> "",
              opts |-> SelectSeq([k \in 1..Len(keys) |-> each[k].opt],
                                 LAMBDA o : o # "")
                       \o <<samp.opt, DimsOption(params)>>]

\* the parameter sets explored
ArgsInit ==
    /\ \E it \in 0..MaxIterations, tm \in BOOLEAN, pr \in {0, 1},
          nm \in {"gaussian + poisson", "median"} :
         arg = ("iterations" :> it) @@ ("time" :> tm) @@ ("patch_radius" :> pr)
               @@ ("noise_model" :> nm) @@ ("adaptability" :> 0)
               @@ ("island_threshold" :> 0) @@ ("z-slices" :> TRUE)
               @@ ("wavelength" :> FALSE)
    /\ ret = <<>>
    /\ EncUnused /\ PairUnused /\ RunUnused /\ SepUnused /\ BatchUnused

CallGetNdsafirArgs ==
    /\ DOMAIN ret = {}
    /\ ret' = get_ndsafir_args(arg)
    /\ UNCHANGED <<arg, notFun>>

SpecArgs == ArgsInit /\ [][CallGetNdsafirArgs]_vars

\* iterations is a positive integer, less than 6 when time is set and less
\* than 11 when it is not
IterationsAllowed(params) ==
    /\ params["iterations"] >= 1
    /\ params["time"] => params["iterations"] < 6
    /\ ~params["time"] => params["iterations"] < 11

\* C18: get_ndsafir_args raises ValueError unless iterations is a positive
\* integer that is less than 6 when time is set and less than 11 when time
\* is not set; for every accepted value the list returned contains exactly
\* one "-iter=<val>" entry.  The code accepts 11 when time is not set.
C18_IterationsChecked ==
    DOMAIN ret # {} =>
        /\ ~IterationsAllowed(arg) => ret.raised = "ValueError"
        /\ ret.raised = "" =>
             Cardinality({k \in 1..Len(ret.opts) :
                 ret.opts[k] = "-iter=" \o ToString(arg["iterations"])}) = 1

----------------------------------------------------------------------------
(* reorder(data, order_in, order_out) of imaging/reorder_dv.py (lines
   39-45).  An array is its shape and its strides (in elements) over the
   values 0, 1, 2, ... laid out in C order, as test_reorder builds them
   with numpy.arange and reshape; the element at an index is the sum of
   index * stride. *)

\* the axis names, in the order sorted() puts them
AxisNames == <<"a", "p", "z">>

\* sorted(s): position k holds the name whose run of equal names covers k
sorted(s) ==
    LET count(r) == Cardinality({i \in 1..Len(s) : \E q \in 1..r : s[i] = AxisNames[q]})
    IN  [k \in 1..Len(s) |->
            AxisNames[CHOOSE r \in 1..Len(AxisNames) :
                         count(r - 1) < k /\ k <= count(r)]]

\* the product of the elements of s from position k on
RECURSIVE ProdFrom(_, _)
ProdFrom(s, k) == IF k > Len(s) THEN 1 ELSE s[k] * ProdFrom(s, k + 1)

\* numpy.arange(n).reshape(shape)
Arange(shape) ==
    [shape |-> shape,
     strides |-> [i \in 1..Len(shape) |-> ProdFrom(shape, i + 1)]]

\* the inverse permutation: axis axes[i] of the result is axis i of data
transposeInverse(data, axes) ==
    LET at(i) == CHOOSE k \in 1..Len(axes) : axes[k] + 1 = i
    IN  [shape |-> [i \in 1..Len(axes) |-> data.shape[at(i)]],
         strides |-> [i \in 1..Len(axes) |-> data.strides[at(i)]]]

\* numpy.transpose(data, axes): axis i of the result is axis axes[i] of
\* data (axes count from 0)
transpose(data, axes) ==
    [shape |-> [i \in 1..Len(axes) |-> data.shape[axes[i] + 1]],
     strides |-> [i \in 1..Len(axes) |-> data.strides[axes[i] + 1]]]

\* lines 40-45; dict(zip(...)) keeps the last position of a name
reorder(data, order_in, order_out) ==
    LET dim_map(name) ==
            (CHOOSE i \in 1..Len(order_in) :
                /\ order_in[i] = name
                /\ \A j \in (i + 1)..Len(order_in) : order_in[j] # name) - 1
    IN  IF sorted(order_in) # sorted(order_out)
        THEN [raised |-> "AssertionError: ORDER_IN and ORDER do not have same elements"]
        ELSE IF Cardinality({order_in[i] : i \in 1..Len(order_in)}) # Len(order_in)
        THEN [raised |-> "AssertionError: ORDER_IN and ORDER_OUT can't have repeated elements"]
        ELSE [raised |-> "",
              value |-> transpose(data, [i \in 1..Len(order_out) |->
                                            dim_map(order_out[i])])]

\* arrays of 1..MaxAxes axes, of extents 2, 3, 4, ... or all of extent 2;
\* an order_in of one name per axis, repeated names included; an order_out
\* of as many names or one fewer
ReorderInit ==
    /\ \E n \in 1..MaxAxes :
       \E shape \in {[i \in 1..n |-> i + 1], [i \in 1..n |-> 2]} :
       \E oin \in [1..n -> {AxisNames[q] : q \in 1..Len(AxisNames)}] :
       \E oout \in [1..n -> {AxisNames[q] : q \in 1..Len(AxisNames)}]
                   \cup [1..(n - 1) -> {AxisNames[q] : q \in 1..Len(AxisNames)}] :
         arg = [data |-> Arange(shape), order_in |-> oin, order_out |-> oout]
    /\ ret = <<>>
    /\ EncUnused /\ PairUnused /\ RunUnused /\ SepUnused /\ BatchUnused

CallReorder ==
    /\ DOMAIN ret = {}
    /\ ret' = reorder(arg.data, arg.order_in, arg.order_out)
    /\ UNCHANGED <<arg, notFun>>

SpecReorder == ReorderInit /\ [][CallReorder]_vars

\* s is a sequence of distinct names
Distinct(s) == \A i \in 1..Len(s) : \A j \in 1..Len(s) : s[i] = s[j] => i = j

\* the two orders are permutations of the same set of distinct names
SamePermutation(a, b) ==
    /\ Distinct(a) /\ Distinct(b)
    /\ {a[i] : i \in 1..Len(a)} = {b[i] : i \in 1..Len(b)}

\* the position (from 1) of a name in a sequence of distinct names
PositionIn(s, name) == CHOOSE i \in 1..Len(s) : s[i] = name

\* the index tuples (from 0) of an array of this shape
Indices(shape) ==
    LET longest == CHOOSE m \in {shape[i] : i \in 1..Len(shape)} :
                      \A i \in 1..Len(shape) : shape[i] <= m
    IN  {ix \in [1..Len(shape) -> 0..(longest - 1)] :
            \A i \in 1..Len(shape) : ix[i] < shape[i]}

\* a[ix]: the element of array a at index tuple ix
RECURSIVE ItemFrom(_, _, _)
ItemFrom(a, ix, k) ==
    IF k > Len(ix) THEN 0 ELSE ix[k] * a.strides[k] + ItemFrom(a, ix, k + 1)

\* C19: when order_in and order_out are permutations of the same set of
\* distinct axis names, reorder returns an array whose axis i is the input
\* axis named order_out[i]: its shape at i is the input shape at the
\* position of order_out[i] in order_in, and the element at an output
\* index is the input element at the index with the same value for every
\* axis name; otherwise reorder fails one of its assertions.
C19_ReorderPermutes ==
    DOMAIN ret # {} =>
        IF SamePermutation(arg.order_in, arg.order_out)
        THEN /\ ret.raised = ""
             /\ \A i \in 1..Len(arg.order_out) :
                  ret.value.shape[i]
                    = arg.data.shape[PositionIn(arg.order_in, arg.order_out[i])]
             /\ \A ix \in Indices(ret.value.shape) :
                  ItemFrom(ret.value, ix, 1)
                    = ItemFrom(arg.data,
                               [j \in 1..Len(arg.order_in) |->
                                   ix[PositionIn(arg.order_out, arg.order_in[j])]], 1)
        ELSE ret.raised # ""

\* three axes of different extents moved to other places
C19_Witness ==
    /\ DOMAIN ret # {}
    /\ ret.raised = ""
    /\ arg.order_in = <<"z", "p", "a">>
    /\ arg.order_out = <<"a", "z", "p">>
    /\ arg.data.shape = <<2, 3, 4>>
    /\ ret.value.shape = <<4, 2, 3>>

----------------------------------------------------------------------------
(* get_lines_ends(im, x, y, l) of imagej/lines_profile_.py (lines 56-84),
   for integer x, y and l >= 0.  hl = l / 2 and cl = sqrt(hl ** 2 / 2) =
   l / sqrt(8); a coordinate is <<base, sign, offset>> and stands for
   base + sign * offset, with offset "hl" or "cl", so that comparisons are
   exact (8 * n * n = l * l has no integer solution but 0, so no rounding
   of cl changes a comparison). *)

\* lines 74-79: vertical, horizontal, top left to bottom right, top right
\* to bottom left
Candidates(x, y) ==
    << <<<<x, 0, "hl">>, <<y, -1, "hl">>, <<x, 0, "hl">>, <<y, 1, "hl">>>>,
       <<<<x, -1, "hl">>, <<y, 0, "hl">>, <<x, 1, "hl">>, <<y, 0, "hl">>>>,
       <<<<x, -1, "cl">>, <<y, -1, "cl">>, <<x, 1, "cl">>, <<y, 1, "cl">>>>,
       <<<<x, 1, "cl">>, <<y, -1, "cl">>, <<x, -1, "cl">>, <<y, 1, "cl">>>> >>

\* c - bound >= 0 for the coordinate c and an integer bound
AtLeast(c, bound, l) ==
    LET d == c[1] - bound
    IN  IF c[2] = 0 THEN d >= 0
        ELSE IF c[3] = "hl" THEN 2 * d + c[2] * l >= 0
        ELSE IF c[2] = 1 THEN d >= 0 \/ 8 * d * d <= l * l
        ELSE d >= 0 /\ 8 * d * d >= l * l

\* c <= bound
AtMost(c, bound, l) == AtLeast(<<0 - c[1], 0 - c[2], c[3]>>, 0 - bound, l)

\* lines 80-82
within_bounds(sc, im, l) ==
    /\ AtLeast(sc[1], 0, l)
    /\ AtLeast(sc[2], 0, l)
    /\ AtMost(sc[3], im.height, l)
    /\ AtMost(sc[4], im.width, l)

\* lines 72-84
get_lines_ends(im, x, y, l) ==
    SelectSeq(Candidates(x, y), LAMBDA sc : within_bounds(sc, im, l))

\* images of up to MaxSide by MaxSide pixels, a centre on the image, a
\* length of 1..MaxLength
LinesInit ==
    /\ \E width \in 1..MaxSide, height \in 1..MaxSide, l \in 1..MaxLength :
       \E x \in 0..width, y \in 0..height :
         arg = [im |-> [width |-> width, height |-> height],
                x |-> x, y |-> y, l |-> l]
    /\ ret = <<>>
    /\ EncUnused /\ PairUnused /\ RunUnused /\ SepUnused /\ BatchUnused

CallGetLinesEnds ==
    /\ DOMAIN ret = {}
    /\ ret' = [lines |-> get_lines_ends(arg.im, arg.x, arg.y, arg.l)]
    /\ UNCHANGED <<arg, notFun>>

SpecLines == LinesInit /\ [][CallGetLinesEnds]_vars

\* both end points of the line are on the image
OnImage(sc, im, l) ==
    /\ AtLeast(sc[1], 0, l) /\ AtMost(sc[1], im.width, l)
    /\ AtLeast(sc[2], 0, l) /\ AtMost(sc[2], im.height, l)
    /\ AtLeast(sc[3], 0, l) /\ AtMost(sc[3], im.width, l)
    /\ AtLeast(sc[4], 0, l) /\ AtMost(sc[4], im.height, l)

\* C20: every line get_lines_ends returns lies on the image, 0 <= x <=
\* width and 0 <= y <= height for both end points, and each of the four
\* candidate lines is returned if and only if both its end points are
\* within these bounds.  within_bounds tests x2 against the height and y2
\* against the width, and tests neither x1, y1 from above nor x2, y2 from
\* below.
C20_LinesOnImage ==
    DOMAIN ret # {} =>
        \A k \in 1..4 :
            LET sc == Candidates(arg.x, arg.y)[k]
            IN  (\E j \in 1..Len(ret.lines) : ret.lines[j] = sc)
                    <=> OnImage(sc, arg.im, arg.l)

----------------------------------------------------------------------------
(* write_imsubs(img, image_id) of omero/omero2mrc_sepCH.py (lines 46-195):
   the routine of omero2mrc.py inside a loop over the channels, with nchan
   rebound to 1 (line 75) and one file <image_id>_CH_<ch>.mrc per channel.
   sep.files[ch + 1] is that file: the bytes written and the <<z, c, t>>
   list handed to px.getPlanes.  img.getChannels() still enumerates the
   channels of the whole image. *)

SepInit ==
    /\ \E im \in NdImages : \E n \in EnumCounts(im.sizeC) :
         sep = [img |-> im, n |-> n, ch |-> 0, files |-> <<>>, err |-> ""]
    /\ EncUnused /\ PairUnused /\ FunUnused /\ RunUnused /\ BatchUnused

\* lines 74-105 for a pixel type without a mode code: the file of channel
\* ch is opened, the three dimensions are written with nchan = 1, TypeError
\* leaves write_imsubs
SepRaiseUnsupportedType ==
    /\ sep.err = "" /\ sep.ch < sep.img.sizeC
    /\ IsNone(pixel_types[sep.img.pixelsType])
    /\ sep' = [sep EXCEPT
                 !.files = Append(@, [bytes |-> DimsBytes([sep.img EXCEPT !.sizeC = 1]),
                                      zct |-> <<>>]),
                 !.err = UnsupportedTypeError]
    /\ UNCHANGED notSep

\* lines 74-194, one turn of the loop over the channels: the header with
\* nchan = 1, planes2get in time then Z order (lines 177-184), every plane
\* of it narrowed, flipped and written (lines 186-193)
SepWriteChannel ==
    /\ sep.err = "" /\ sep.ch < sep.img.sizeC
    /\ ~IsNone(pixel_types[sep.img.pixelsType])
    /\ LET im == sep.img
           planes2get == [k \in 1..(im.sizeT * im.sizeZ) |->
                            <<(k - 1) % im.sizeZ, sep.ch, (k - 1) \div im.sizeZ>>]
           planes == Flatten([k \in 1..Len(planes2get) |->
                        PlaneBytes(im, planes2get[k][2], planes2get[k][3],
                                   planes2get[k][1])])
       IN  sep' = [sep EXCEPT
                     !.files = Append(@, [bytes |-> HeaderBytes([im EXCEPT !.sizeC = 1], sep.n)
                                                    \o planes,
                                          zct |-> planes2get]),
                     !.ch = @ + 1]
    /\ UNCHANGED notSep

SepNext == SepRaiseUnsupportedType \/ SepWriteChannel

SpecSep == SepInit /\ [][SepNext]_vars

\* the planes of channel ch, time outer and Z inner, as <<z, c, t>>
ChannelPlanes(im, ch) ==
    [k \in 1..(im.sizeT * im.sizeZ) |->
        <<(k - 1) % im.sizeZ, ch, (k - 1) \div im.sizeZ>>]

\* C21: for an image of C >= 1 channels of a supported pixel type whose
\* channels getChannels() enumerates, write_imsubs of omero2mrc_sepCH.py
\* writes one file per channel, and the file of channel ch is a header of
\* exactly 1024 bytes, with nsections = num_z * num_time at offset 8 and
\* numwaves = 1 at offset 196, followed immediately by exactly the
\* num_time * num_z planes of channel ch in time then Z order, for every C.
\* The header has one wavelength slot per enumerated channel and four more:
\* 1024 + 2 * (C - 1) bytes.
C21_HeaderOf1024ThenPlanes ==
    (sep.n = sep.img.sizeC /\ sep.img.pixelsType \in Encodable) =>
        /\ Len(sep.files) = sep.ch
        /\ \A i \in 1..Len(sep.files) :
             LET im == sep.img
                 file == sep.files[i]
                 plane == im.sizeX * im.sizeY * BytesPerSample(im.pixelsType)
                 want == ChannelPlanes(im, i - 1)
             IN  /\ Len(file.bytes) = 1024 + im.sizeT * im.sizeZ * plane
                 /\ S32At(file.bytes, 8) = im.sizeZ * im.sizeT
                 /\ S16At(file.bytes, 196) = 1
                 /\ file.zct = want
                 /\ \A k \in 1..Len(want) :
                      SubSeq(file.bytes, 1025 + (k - 1) * plane, 1024 + k * plane)
                        = PlaneBytes(im, i - 1, want[k][3], want[k][1])

----------------------------------------------------------------------------
(* The batch run of auto/ndsafir-batch.py: NdsafirControlDialog.ShowModal
   starts one NdsafirMasterThread, which starts one NdsafirThread per file;
   the worker runs ndsafir in a child process; the GUI thread handles the
   buttons and the events the master posts.  The files are 1..nfiles.

   batch.thread[k]   the NdsafirThread of file k: "none" before it is made,
                     "popen" once started, "communicate" while it waits for
                     its child, "sleep" in time.sleep(.5) after communicate
                     has reaped the child, "ended"
   batch.process[k]  self.process of that thread: "None", a child that is
                     "running" or "signalled" (SIGTERM sent), or "reaped"
   batch.returncode  the returncode of the reaped children
   batch.outputs     the files with an output file fout on disk
   batch.queue       the events posted with wx.PostEvent and not handled
   batch.posted      every event posted, in order (history)
   batch.skipDuring  the files that were being processed at a press of
                     Skip; batch.skipKilled, the files whose child got
                     terminate() with the abort flag clear (history)

   Python 2: Popen.terminate is os.kill(self.pid, SIGTERM), which raises
   OSError for a child that has been reaped. *)

MaxFiles == 3
MaxPresses == 2

BatchInit ==
    /\ \E n \in 0..MaxFiles :
         batch = [nfiles |-> n, fin |-> 1, master |-> "for",
                  thread |-> [k \in 1..n |-> "none"],
                  process |-> [k \in 1..n |-> "None"],
                  returncode |-> <<>>, outputs |-> {},
                  skip |-> FALSE, abort |-> FALSE,
                  dialog |-> "modal", presses |-> 0,
                  gauge |-> 0, range |-> n * 2,
                  queue |-> <<>>, posted |-> <<>>,
                  skipDuring |-> {}, skipKilled |-> {}]
    /\ EncUnused /\ PairUnused /\ FunUnused /\ RunUnused /\ SepUnused

\* lines 381-391: the next file of the list, NdsafirStartEvent, the worker
\* made and started
MasterStartFile ==
    /\ batch.master = "for" /\ batch.fin <= batch.nfiles
    /\ LET e == [type |-> "start", fin |-> batch.fin]
       IN  batch' = [batch EXCEPT !.queue = Append(@, e),
                                  !.posted = Append(@, e),
                                  !.thread[batch.fin] = "popen",
                                  !.master = "while"]
    /\ UNCHANGED notBatch

\* lines 392-397 without the test of ndsafir.is_alive(): the loop is left
\* at once
MasterLoopNoWait ==
    /\ batch.master = "while"
    /\ batch' = [batch EXCEPT !.master = "after"]
    /\ UNCHANGED notBatch

\* lines 392-397, one turn of the loop: the worker is no longer alive, or a
\* flag is set and ndsafir.process.terminate() is called (AttributeError
\* when process is still None, OSError when the child has been reaped),
\* or nothing but the sleep
MasterLoop ==
    /\ batch.master = "while"
    /\ LET k == batch.fin
       IN  batch' =
             IF batch.thread[k] = "ended"
             THEN [batch EXCEPT !.master = "after"]
             ELSE IF batch.skip \/ batch.abort
             THEN IF batch.process[k] \in {"None", "reaped"}
                  THEN [batch EXCEPT !.master = "died"]
                  ELSE [batch EXCEPT
                          !.process[k] = "signalled",
                          !.skip = FALSE,
                          !.skipKilled = IF batch.abort THEN @ ELSE @ \cup {k}]
             ELSE batch
    /\ UNCHANGED notBatch

\* lines 399-405: the output removed unless the returncode is 0
\* (AttributeError when process is None), the loop left when abort is set,
\* NdsafirEndEvent
MasterAfterLoop ==
    /\ batch.master = "after"
    /\ LET k == batch.fin
           e == [type |-> "end", fin |-> k]
       IN  batch' =
             IF batch.process[k] = "None"
             THEN [batch EXCEPT !.master = "died"]
             ELSE LET unlinked == [batch EXCEPT !.outputs =
                                     IF k \in DOMAIN batch.returncode
                                        /\ batch.returncode[k] = 0
                                     THEN @ ELSE @ \ {k}]
                  IN  IF batch.abort
                      THEN [unlinked EXCEPT !.master = "break"]
                      ELSE [unlinked EXCEPT !.queue = Append(@, e),
                                            !.posted = Append(@, e),
                                            !.fin = @ + 1,
                                            !.master = "for"]
    /\ UNCHANGED notBatch

\* line 407, after the last file or the break
MasterAllDone ==
    /\ \/ batch.master = "break"
       \/ batch.master = "for" /\ batch.fin > batch.nfiles
    /\ LET e == [type |-> "all_done", fin |-> 0]
       IN  batch' = [batch EXCEPT !.queue = Append(@, e),
                                  !.posted = Append(@, e),
                                  !.master = "ended"]
    /\ UNCHANGED notBatch

\* lines 335-344 and 356-359: Popen makes the child, or raises OSError and
\* run ends with process still None
WorkerPopen(k) ==
    /\ batch.thread[k] = "popen"
    /\ \/ batch' = [batch EXCEPT !.thread[k] = "communicate",
                                 !.process[k] = "running"]
       \/ batch' = [batch EXCEPT !.thread[k] = "ended"]
    /\ UNCHANGED notBatch

\* lines 345-350: communicate() returns when the child has exited, on its
\* own with status 0 or 1 or killed by SIGTERM, and has been reaped
WorkerCommunicate(k) ==
    /\ batch.thread[k] = "communicate"
    /\ \E rc \in IF batch.process[k] = "signalled" THEN {-15} ELSE {0, 1} :
         batch' = [batch EXCEPT !.thread[k] = "sleep",
                                !.process[k] = "reaped",
                                !.returncode = @ @@ (k :> rc),
                                !.outputs = @ \cup {k}]
    /\ UNCHANGED notBatch

\* line 345 after the sleep: poll() is not None, run ends
WorkerReturn(k) ==
    /\ batch.thread[k] = "sleep"
    /\ batch' = [batch EXCEPT !.thread[k] = "ended"]
    /\ UNCHANGED notBatch

\* lines 472-474; the buttons are there while the dialog is modal and
\* NdsafirAllDoneEvent has not replaced them
on_skip_EVT_BUTTON ==
    /\ batch.dialog = "modal" /\ batch.presses < MaxPresses
    /\ batch' = [batch EXCEPT
                   !.skip = TRUE,
                   !.presses = @ + 1,
                   !.skipDuring = IF batch.master \in {"while", "after"}
                                  THEN @ \cup {batch.fin} ELSE @]
    /\ UNCHANGED notBatch

\* lines 467-470
on_abort_EVT_BUTTON ==
    /\ batch.dialog = "modal"
    /\ batch' = [batch EXCEPT !.abort = TRUE, !.dialog = "ended"]
    /\ UNCHANGED notBatch

\* lines 476-493 with a gauge that counts the events, NdsafirAllDoneEvent
\* among them
HandleEventCounting ==
    /\ batch.queue # <<>>
    /\ batch' = [batch EXCEPT
                   !.queue = Tail(@),
                   !.gauge = @ + 1,
                   !.dialog = IF Head(batch.queue).type = "all_done" /\ @ = "modal"
                              THEN "done" ELSE @]
    /\ UNCHANGED notBatch

\* lines 476-493: the GUI thread takes the oldest posted event to its
\* handler, on_EVT_NDSAFIR_START, on_EVT_NDSAFIR_END or
\* on_EVT_NDSAFIR_ALL_DONE
HandleEvent ==
    /\ batch.queue # <<>>
    /\ LET e == Head(batch.queue)
           taken == [batch EXCEPT !.queue = Tail(@)]
       IN  batch' =
             IF e.type = "all_done"
             THEN [taken EXCEPT !.gauge = batch.range,
                                !.dialog = IF @ = "modal" THEN "done" ELSE @]
             ELSE [taken EXCEPT !.gauge = @ + 1]
    /\ UNCHANGED notBatch

BatchNext ==
    \/ MasterStartFile
    \/ MasterLoop
    \/ MasterAfterLoop
    \/ MasterAllDone
    \/ \E k \in 1..batch.nfiles : WorkerPopen(k)
    \/ \E k \in 1..batch.nfiles : WorkerCommunicate(k)
    \/ \E k \in 1..batch.nfiles : WorkerReturn(k)
    \/ on_skip_EVT_BUTTON
    \/ on_abort_EVT_BUTTON
    \/ HandleEvent

SpecBatch == BatchInit /\ [][BatchNext]_vars

\* the same with every thread scheduled again and again, an ndsafir that
\* ends, and a GUI thread that keeps handling events
FairBatch ==
    /\ SpecBatch
    /\ WF_vars(MasterStartFile \/ MasterLoop \/ MasterAfterLoop \/ MasterAllDone)
    /\ WF_vars(\E k \in 1..batch.nfiles :
                  WorkerPopen(k) \/ WorkerCommunicate(k) \/ WorkerReturn(k))
    /\ WF_vars(HandleEvent)

\* the events the dialog has handled so far
Handled == SubSeq(batch.posted, 1, Len(batch.posted) - Len(batch.queue))

AllDonePosted == {j \in 1..Len(batch.posted) : batch.posted[j].type = "all_done"}

\* C22: every run of NdsafirMasterThread eventually posts
\* NdsafirAllDoneEvent exactly once, as its last event, for every file list
\* and every interleaving with the worker and the buttons, also when Popen
\* raises OSError in the worker and when skip or abort is set before the
\* worker has made its process.  From some moment on the events posted end
\* with the one NdsafirAllDoneEvent.
C22_AllDoneOnceAndLast ==
    <>[](/\ Cardinality(AllDonePosted) = 1
         /\ Len(batch.posted) \in AllDonePosted)

\* C23: once the Abort button has set the abort flag, the master posts no
\* NdsafirStartEvent (it starts ndsafir for no further file).
C23_NoStartAfterAbort ==
    [][batch.abort =>
         ~(/\ Len(batch'.posted) = Len(batch.posted) + 1
           /\ batch'.posted[Len(batch'.posted)].type = "start")]_vars

\* C24: a press of Skip terminates only the ndsafir process of the file
\* that was being processed when it was pressed: every file whose process
\* was terminated for the skip flag was being processed at a press.
C24_SkipOnlyTheRunningFile == batch.skipKilled \subseteq batch.skipDuring

ThreadsAlive == {k \in 1..batch.nfiles : batch.thread[k] \in {"popen", "communicate", "sleep"}}
ChildrenAlive == {k \in 1..batch.nfiles : batch.process[k] \in {"running", "signalled"}}
StartsPosted == SelectSeq(batch.posted, LAMBDA e : e.type = "start")

\* C25: the files are processed one at a time in list order: at most one
\* NdsafirThread and at most one ndsafir process is alive, the start events
\* are those of files 1, 2, ... in this order, the NdsafirStartEvent of
\* file k + 1 is posted only when the worker of file k has ended, and the
\* NdsafirEndEvent of a file follows its NdsafirStartEvent.
C25_OneFileAtATime ==
    /\ Cardinality(ThreadsAlive) <= 1
    /\ Cardinality(ChildrenAlive) <= 1
    /\ \A j \in 1..Len(StartsPosted) :
         /\ StartsPosted[j].fin = j
         /\ \A k \in 1..(j - 1) : batch.thread[k] = "ended"
    /\ \A j \in 1..Len(batch.posted) :
         batch.posted[j].type = "end" =>
            \E h \in 1..(j - 1) :
               batch.posted[h] = [type |-> "start", fin |-> batch.posted[j].fin]

\* the second file is running after the first one has ended
C25_Witness ==
    /\ batch.nfiles >= 2
    /\ batch.process[2] = "running"
    /\ Len(batch.posted) = 3
    /\ batch.posted[2] = [type |-> "end", fin |-> 1]

\* the files the dialog has been told are started and not ended
Shown ==
    {k \in 1..batch.nfiles :
        /\ \E j \in 1..Len(Handled) : Handled[j] = [type |-> "start", fin |-> k]
        /\ \A j \in 1..Len(Handled) : Handled[j] # [type |-> "end", fin |-> k]}
AllDoneHandled == \E j \in 1..Len(Handled) : Handled[j].type = "all_done"

\* C26: the gauge stays within 0 .. 2 * len(fpaths); after the events the
\* dialog has handled it is odd exactly when they say a file is being
\* processed (a start event without its end event, and no
\* NdsafirAllDoneEvent); it equals its range once NdsafirAllDoneEvent is
\* handled.
C26_GaugeWithinRange ==
    /\ batch.range = 2 * batch.nfiles
    /\ batch.gauge \in 0..batch.range
    /\ (batch.gauge % 2 = 1) <=> (Shown # {} /\ ~AllDoneHandled)
    /\ AllDoneHandled => batch.gauge = batch.range

\* an aborted run: the second file was started and never ended, the first
\* was skipped, and NdsafirAllDoneEvent has been handled
C26_Witness ==
    /\ AllDoneHandled
    /\ batch.abort
    /\ 2 \in Shown
    /\ 1 \in batch.skipKilled
    /\ batch.gauge = batch.range

============================================================================
